---------------------------- MODULE Spec2Model ----------------------------
(***************************************************************************)
(* Incremental commit sync of the vibecon backend.                         *)
(*                                                                         *)
(*   github_commit_analyzer.py  GitHubCommitAnalyzer.get_commits_since     *)
(*   server.py                  analyze_commits (POST /api/analyze_commits)*)
(*   supabase_client.py         get_repo_sync_state, update_repo_sync_state*)
(*                                                                         *)
(* Every call to GitHub (_make_request) and every call to Supabase         *)
(* (.execute()) is one atomic step of the request that issues it; the      *)
(* Python code between two such calls runs with the step that precedes it. *)
(***************************************************************************)
EXTENDS Integers, Sequences, FiniteSets, TLC

\* ------------------------------------------------------------------ bounds
\* commits a repository can hold (sha k is the k-th commit pushed)
MaxHist == 3
\* committer dates are 1..MaxDate
MaxDate == 2
\* the largest max_commits a request carries
MaxMaxCommits == 3
\* the max_commits of the requests that are served concurrently
ConcMaxCommits == 2
\* files of a commit whose diff is formatted
MaxFiles == 2
\* commit_ids of a call of get_multiple_commit_diffs
MaxIds == 3
\* rows of a tree query, and the deepest depth a row carries
MaxRows == 5
MaxDepth == 3

\* ------------------------------------------------------- program constants
\* github_commit_analyzer.py:83  "per_page": min(max_commits, 100)
PerPageCap == 100
\* server.py:130  "per_page": min(request.max_commits, 10)
FirstSyncCap == 10

\* --------------------------------------------------------------- the world
Procs == {"p1", "p2"}
Repos == {"r1", "r2"}
Branches == {"main", "dev"}
\* branch: str = "main", the branch of a request that names none
DefaultBranch == {"main"}
\* sha 0 names a commit that no repository holds (a stale checkpoint)
Hashes == 0 .. MaxHist
MaxCommitsValues == 0 .. MaxMaxCommits
\* max_commits beyond the page size of a first sync and beyond the page
\* size of an incremental sync
LargeMaxCommits == {FirstSyncCap + 1, PerPageCap + 1}

Min(a, b) == IF a < b THEN a ELSE b

\* commit["commit"]["message"] of the commit with this sha: one line, two
\* lines, an empty first line, an empty message
MessageOf(sha) ==
    CASE sha % 4 = 1 -> <<"a">>
      [] sha % 4 = 2 -> <<"a", "\n", "b">>
      [] sha % 4 = 3 -> <<"\n", "a">>
      [] OTHER       -> << >>

\* message.split("\n")[0]: the characters before the first newline
RECURSIVE FirstLine(_)
FirstLine(m) ==
    IF m = << >> \/ Head(m) = "\n" THEN << >>
    ELSE <<Head(m)>> \o FirstLine(Tail(m))

VARIABLES
    history,    \* history[repo]: the commits GitHub lists, newest first
    table,      \* the rows of the repo_sync_state table, in insertion order
    proc,       \* proc[p]: the locals of the request p is serving
    diff,       \* the locals of the call that formats commit diffs
    tree        \* the locals of the call of print_tree

vars == <<history, table, proc, diff, tree>>

\* -------------------------------------------------------------- HistorySource
\* GET /repos/{repo}/commits/{sha}: the commit, or nothing (404)
LookupCommit(repo, sha) ==
    SelectSeq(history[repo], LAMBDA c : c.sha = sha)

\* GET /repos/{repo}/commits?since=..: commits whose date is not before
\* since, newest first; since = 0 stands for a request without the filter
ListedSince(repo, since) ==
    SelectSeq(history[repo], LAMBDA c : c.date >= since)

\* the rows of page `page` when pages hold per_page rows
PageOf(rows, page, per_page) ==
    SubSeq(rows, (page - 1) * per_page + 1, Min(page * per_page, Len(rows)))

\* GitHub serves 30 rows a page when per_page is not a positive number and
\* at most 100 rows a page
ServedPerPage(per_page) == IF per_page < 1 THEN 30 ELSE Min(per_page, 100)

ListCommits(repo, since, page, per_page) ==
    PageOf(ListedSince(repo, since), page, ServedPerPage(per_page))

\* ------------------------------------------------------------ repo_sync_state
\* get_repo_sync_state: result.data[0] if result.data else None, as a
\* sequence of at most one row
SelectRepo(t, repo_name) ==
    SelectSeq(t, LAMBDA r : r.repo_name = repo_name)

get_repo_sync_state(t, repo_name) ==
    IF SelectRepo(t, repo_name) # << >>
    THEN <<SelectRepo(t, repo_name)[1]>> ELSE << >>

\* .update({...}).eq("repo_name", repo_name): every matching row is written
UpdateRows(t, repo_name, last_commit_hash) ==
    [i \in 1 .. Len(t) |->
        IF t[i].repo_name = repo_name
        THEN [t[i] EXCEPT !.last_commit_hash = last_commit_hash,
                          !.last_synced_at = "now()"]
        ELSE t[i]]

\* .insert({...}): a new row; last_synced_at is left to the column default
InsertRow(t, repo_name, last_commit_hash) ==
    Append(t, [repo_name |-> repo_name,
               last_commit_hash |-> last_commit_hash,
               last_synced_at |-> "default"])

\* the write as an insert whatever the read returned
WriteAlwaysInsert(t, existing, repo_name, last_commit_hash) ==
    InsertRow(t, repo_name, last_commit_hash)

\* the write skipped when the row read holds a later commit
WriteKeepsNewer(t, existing, repo_name, last_commit_hash) ==
    IF existing # << >>
    THEN IF existing[1].last_commit_hash > last_commit_hash
         THEN t ELSE UpdateRows(t, repo_name, last_commit_hash)
    ELSE InsertRow(t, repo_name, last_commit_hash)

\* update_repo_sync_state's write, given what its read returned
WriteSyncState(t, existing, repo_name, last_commit_hash) ==
    IF existing # << >>
    THEN UpdateRows(t, repo_name, last_commit_hash)
    ELSE InsertRow(t, repo_name, last_commit_hash)

\* ------------------------------------------------------------- the requests
\* a worker that serves no request
IdleProc ==
    [pc |-> "idle", op |-> "none",
     repo_id |-> "r1", branch |-> "main", max_commits |-> 0,
     update_last_sync |-> FALSE,
     sync_state |-> << >>, since_commit_id |-> 0, since_date |-> 0,
     per_page |-> 0, page |-> 0, all_commits |-> << >>, commits |-> << >>,
     last_commit_hash |-> 0, existing |-> << >>,
     requests |-> << >>, writes |-> 0,
     error |-> "none", status |-> 0, returned |-> << >>]

\* the outcomes of one _make_request: the JSON body, raise_for_status()
\* raising HTTPError, requests.get raising ConnectionError
Outcomes == {"ok", "HTTPError", "ConnectionError"}

\* the request sent without its since parameter
RequestNoSince(kind, sha, branch, since, per_page, page, rows) ==
    [kind |-> kind, sha |-> sha, branch |-> branch, since |-> 0,
     per_page |-> per_page, page |-> page, rows |-> rows]

\* one request sent to GitHub, as the call's log keeps it; rows is the
\* number of rows of the answer, -1 when the request failed
Request(kind, sha, branch, since, per_page, page, rows) ==
    [kind |-> kind, sha |-> sha, branch |-> branch, since |-> since,
     per_page |-> per_page, page |-> page, rows |-> rows]

Logged(s, r) == [s EXCEPT !.requests = Append(@, r)]

\* the record with the whole message as its description
SummaryWholeMessage(c) == [commit_id |-> c.sha, description |-> c.message]

\* {"commit_id": commit["sha"], "description": first line of the message}
Summary(c) == [commit_id |-> c.sha, description |-> FirstLine(c.message)]

\* the for loop without the test that skips the reference commit
RECURSIVE AccumulateNoSkip(_, _, _, _)
AccumulateNoSkip(all_commits, commits, since_commit_id, max_commits) ==
    IF commits = << >> THEN all_commits
    ELSE IF Len(all_commits) + 1 >= max_commits
    THEN Append(all_commits, Summary(Head(commits)))
    ELSE AccumulateNoSkip(Append(all_commits, Summary(Head(commits))),
                          Tail(commits), since_commit_id, max_commits)

\* the for loop over one page: skip the reference commit, append the
\* others, stop once max_commits are held
RECURSIVE Accumulate(_, _, _, _)
Accumulate(all_commits, commits, since_commit_id, max_commits) ==
    IF commits = << >> THEN all_commits
    ELSE IF Head(commits).sha = since_commit_id
    THEN Accumulate(all_commits, Tail(commits), since_commit_id, max_commits)
    ELSE IF Len(all_commits) + 1 >= max_commits
    THEN Append(all_commits, Summary(Head(commits)))
    ELSE Accumulate(Append(all_commits, Summary(Head(commits))),
                    Tail(commits), since_commit_id, max_commits)

\* the loop as `while True:`, left only by its two breaks
LoopEndsNoBound(commits, all_commits, per_page, max_commits) ==
    \/ commits = << >>
    \/ Len(commits) < per_page

\* the loop without the break on a page shorter than per_page
LoopEndsNoShortBreak(commits, all_commits, per_page, max_commits) ==
    \/ commits = << >>
    \/ ~(Len(all_commits) < max_commits)

\* the loop as `while len(all_commits) <= max_commits:`
LoopEndsOffByOne(commits, all_commits, per_page, max_commits) ==
    \/ commits = << >>
    \/ Len(commits) < per_page
    \/ ~(Len(all_commits) <= max_commits)

\* the two breaks and the while condition: whether the loop is left after
\* this page
LoopEnds(commits, all_commits, per_page, max_commits) ==
    \/ commits = << >>
    \/ Len(commits) < per_page
    \/ ~(Len(all_commits) < max_commits)

\* except requests.exceptions.HTTPError -> raise ValueError(...)
RefError(outcome) == IF outcome = "HTTPError" THEN "ValueError" ELSE outcome

\* if commits and sync_state and request.update_last_sync
ShouldUpdate(commits, sync_state, update_last_sync) ==
    commits # << >> /\ sync_state # << >> /\ update_last_sync

\* the first sync storing its checkpoint whatever the flag
ShouldInitNoFlag(commits, update_last_sync) ==
    commits # << >>

\* if commits and request.update_last_sync (first sync)
ShouldInit(commits, update_last_sync) ==
    commits # << >> /\ update_last_sync

\* the failure swallowed (`except: break`) and the records held so far
\* returned
RaiseReturnsPartial(s, error) ==
    [s EXCEPT !.pc = "done", !.commits = s.all_commits, !.status = 200]

\* the failure of a list request ending the loop (`except: break`), the
\* records held so far then stored as for a completed fetch
RaiseAfterStoring(s, error) ==
    IF s.all_commits # << >> /\ s.sync_state # << >> /\ s.update_last_sync
      THEN [s EXCEPT !.pc = "upd_read", !.error = error,
                     !.commits = s.all_commits,
                     !.last_commit_hash = s.all_commits[1].commit_id]
      ELSE [s EXCEPT !.pc = "done", !.error = error, !.status = 500]

\* except Exception as e: raise HTTPException(status_code=500, ...)
Raise(s, error) == [s EXCEPT !.pc = "done", !.error = error, !.status = 500]

\* return {"commits": commits, ...}
Return200(s) == [s EXCEPT !.pc = "done", !.status = 200]

\* the call made with the last record of the list, commits[-1]
CallUpdateOldest(s) ==
    [s EXCEPT !.pc = "upd_read",
              !.last_commit_hash = s.commits[Len(s.commits)].commit_id]

\* update_repo_sync_state(request.repo_id, commits[0]["commit_id"]) is called
CallUpdate(s) ==
    [s EXCEPT !.pc = "upd_read",
              !.last_commit_hash = s.commits[1].commit_id]

\* analyze_commits once get_commits_since has returned `commits`
AfterFetch(s, commits) ==
    LET s1 == [s EXCEPT !.commits = commits]
    IN  IF ShouldUpdate(commits, s.sync_state, s.update_last_sync)
        THEN CallUpdate(s1) ELSE Return200(s1)

\* analyze_commits once the first-sync listing has been mapped to `commits`
AfterLatest(s, commits) ==
    LET s1 == [s EXCEPT !.commits = commits]
    IN  IF ShouldInit(commits, s.update_last_sync)
        THEN CallUpdate(s1)
        ELSE IF ShouldUpdate(commits, s.sync_state, s.update_last_sync)
        THEN CallUpdate(s1) ELSE Return200(s1)

\* the comprehension run over the response from its last row to its first
SummariesReversed(response) ==
    [i \in 1 .. Len(response) |-> Summary(response[Len(response) + 1 - i])]

\* [{"commit_id": ..., "description": ...} for commit in response]
Summaries(response) == [i \in 1 .. Len(response) |-> Summary(response[i])]

\* --------------------------------------------------------------- the actions
\* a commit is pushed to a repository that holds fewer than `most` commits
PushUpTo(repo, most) ==
    /\ Len(history[repo]) < most
    /\ \E date \in 1 .. MaxDate :
         /\ history[repo] # << >> => date >= history[repo][1].date
         /\ history' = [history EXCEPT ![repo] =
                <<[sha |-> Len(history[repo]) + 1, date |-> date,
                   message |-> MessageOf(Len(history[repo]) + 1)]>> \o @]
    /\ UNCHANGED <<table, proc, diff, tree>>

\* a commit is pushed to the repository
Push(repo) == PushUpTo(repo, MaxHist)

\* POST /api/analyze_commits arrives: sync_state = get_repo_sync_state(..)
AnalyzeCommits(p, repo_id, branch, max_commits, update_last_sync) ==
    /\ proc[p].pc \in {"idle", "done"}
    /\ LET sync_state == get_repo_sync_state(table, repo_id)
           s == [IdleProc EXCEPT !.op = "analyze_commits",
                      !.repo_id = repo_id, !.branch = branch,
                      !.max_commits = max_commits,
                      !.update_last_sync = update_last_sync,
                      !.sync_state = sync_state]
       IN  proc' = [proc EXCEPT ![p] =
              IF sync_state # << >>
              THEN [s EXCEPT !.pc = "ref",
                      !.since_commit_id = sync_state[1].last_commit_hash]
              ELSE [s EXCEPT !.pc = "latest"]]
    /\ UNCHANGED <<history, table, diff, tree>>

\* get_commits_since: the request for the reference commit, then
\* params = {..., "per_page": min(max_commits, 100)} and the first test of
\* the while condition
RefLookup(p) ==
    /\ proc[p].pc = "ref"
    /\ \E outcome \in Outcomes :
         LET s == proc[p]
             ref_commit == LookupCommit(s.repo_id, s.since_commit_id)
             r(rows) == Request("ref", s.since_commit_id, "", 0, 0, 0, rows)
         IN  /\ outcome = "ok" => ref_commit # << >>
             /\ proc' = [proc EXCEPT ![p] =
                  IF outcome # "ok"
                  THEN Raise(Logged(s, r(-1)), RefError(outcome))
                  ELSE LET s1 == [Logged(s, r(1)) EXCEPT
                                    !.since_date = ref_commit[1].date,
                                    !.per_page = Min(s.max_commits, PerPageCap),
                                    !.page = 1]
                       IN  IF Len(s1.all_commits) < s1.max_commits
                           THEN [s1 EXCEPT !.pc = "list"]
                           ELSE AfterFetch(s1, s1.all_commits)]
    /\ UNCHANGED <<history, table, diff, tree>>

\* get_commits_since: one turn of the while loop
ListPage(p) ==
    /\ proc[p].pc = "list"
    /\ \E outcome \in Outcomes :
         LET s == proc[p]
             commits == ListCommits(s.repo_id, s.since_date, s.page, s.per_page)
             r(rows) == Request("list", 0, s.branch, s.since_date, s.per_page,
                                s.page, rows)
             all_commits == Accumulate(s.all_commits, commits,
                                       s.since_commit_id, s.max_commits)
             s1 == [Logged(s, r(Len(commits))) EXCEPT
                      !.all_commits = all_commits]
         IN  proc' = [proc EXCEPT ![p] =
                IF outcome # "ok" THEN Raise(Logged(s, r(-1)), outcome)
                ELSE IF LoopEnds(commits, all_commits, s.per_page, s.max_commits)
                THEN AfterFetch(s1, all_commits)
                ELSE [s1 EXCEPT !.page = @ + 1]]
    /\ UNCHANGED <<history, table, diff, tree>>

\* analyze_commits, first sync: one page of the latest commits
FirstSync(p) ==
    /\ proc[p].pc = "latest"
    /\ \E outcome \in Outcomes :
         LET s == proc[p]
             per_page == Min(s.max_commits, FirstSyncCap)
             response == ListCommits(s.repo_id, 0, 1, per_page)
             r(rows) == Request("list", 0, s.branch, 0, per_page, 1, rows)
         IN  proc' = [proc EXCEPT ![p] =
                IF outcome # "ok" THEN Raise(Logged(s, r(-1)), outcome)
                ELSE AfterLatest(Logged(s, r(Len(response))),
                                 Summaries(response))]
    /\ UNCHANGED <<history, table, diff, tree>>

\* update_repo_sync_state: existing = get_repo_sync_state(repo_name)
UpdRead(p) ==
    /\ proc[p].pc = "upd_read"
    /\ proc' = [proc EXCEPT ![p].pc = "upd_write",
                            ![p].existing =
                                get_repo_sync_state(table, proc[p].repo_id)]
    /\ UNCHANGED <<history, table, diff, tree>>

\* update_repo_sync_state: the update or the insert, and the return
UpdWrite(p) ==
    /\ proc[p].pc = "upd_write"
    /\ table' = WriteSyncState(table, proc[p].existing, proc[p].repo_id,
                               proc[p].last_commit_hash)
    /\ proc' = [proc EXCEPT ![p] =
            [Return200(proc[p]) EXCEPT
                !.writes = @ + 1,
                !.returned = get_repo_sync_state(table', proc[p].repo_id)]]
    /\ UNCHANGED <<history, diff, tree>>

\* update_repo_sync_state(repo_name, last_commit_hash) called on its own
UpdateRepoSyncState(p, repo_name, last_commit_hash) ==
    /\ proc[p].pc \in {"idle", "done"}
    /\ proc' = [proc EXCEPT ![p] =
          [IdleProc EXCEPT !.op = "update_repo_sync_state",
              !.pc = "upd_write", !.repo_id = repo_name,
              !.last_commit_hash = last_commit_hash,
              !.existing = get_repo_sync_state(table, repo_name)]]
    /\ UNCHANGED <<history, table, diff, tree>>

\* get_repo_sync_state(repo_name) called on its own
GetRepoSyncState(p, repo_name) ==
    /\ proc[p].pc \in {"idle", "done"}
    /\ proc' = [proc EXCEPT ![p] =
          [IdleProc EXCEPT !.op = "get_repo_sync_state",
              !.pc = "done", !.repo_id = repo_name,
              !.returned = get_repo_sync_state(table, repo_name)]]
    /\ UNCHANGED <<history, table, diff, tree>>

\* ------------------------------------------------------------ DiffFormatter
\* github_commit_analyzer.py  get_commit_diff, get_multiple_commit_diffs
\*
\* A text is a string; the list a text is joined from is kept next to it.
\* A dict is a record whose DOMAIN holds the keys that are present.

\* dict.get(key, default)
Get(d, key, default) == IF key \in DOMAIN d THEN d[key] ELSE default

\* "\n".join(list)
RECURSIVE Join(_)
Join(list) ==
    IF list = << >> THEN ""
    ELSE IF Len(list) = 1 THEN Head(list)
    ELSE Head(list) \o "\n" \o Join(Tail(list))

\* "=" * 80 and "-" * 80
Rule ==
    "================================================================================"
FileRule ==
    "--------------------------------------------------------------------------------"

\* the entries of commit_data["files"]: a text file with its patch, a
\* binary file (no patch key), an entry that carries no counts
FileKinds ==
    { [filename |-> "a.py", status |-> "modified", additions |-> 2,
       deletions |-> 1, patch |-> "@@ -1 +1 @@"],
      [filename |-> "b.png", status |-> "added", additions |-> 0,
       deletions |-> 0],
      [filename |-> "c.txt", status |-> "renamed"] }
FileLists == UNION {[1 .. n -> FileKinds] : n \in 0 .. MaxFiles}

\* commit_data["stats"], with and without its counts
StatsKinds == { [additions |-> 2, deletions |-> 1, total |-> 3], [total |-> 0] }

\* the keys every commit of GET /repos/{repo}/commits/{sha} carries
CommitBody(sha) ==
    [sha |-> sha,
     commit |-> [message |-> "fix parser\n\nbody",
                 author |-> [name |-> "ann", email |-> "ann@x.org",
                             date |-> "2024-01-01T00:00:00Z"]]]

\* a payload cut short: the commit has no author
Truncated(sha) == [sha |-> sha, commit |-> [message |-> "fix parser"]]

\* what _make_request returns for a commit, or the exception it raises
Payloads(sha) ==
    {CommitBody(sha), Truncated(sha)}
      \cup {CommitBody(sha) @@ [stats |-> s] : s \in StatsKinds}
      \cup {CommitBody(sha) @@ [files |-> f] : f \in FileLists}
      \cup {CommitBody(sha) @@ [files |-> f, stats |-> s] :
                f \in FileLists, s \in StatsKinds}
Responses(sha) ==
    {[outcome |-> "ok", data |-> d] : d \in Payloads(sha)}
      \cup {[outcome |-> o, data |-> << >>] : o \in Outcomes \ {"ok"}}

\* the responses the requests of a batch draw from: a commit with stats
\* and every kind of file, a commit with neither, a payload cut short,
\* and the two failures
BatchFiles == CHOOSE f \in FileLists : Len(f) = MaxFiles /\
                 \A i \in 1 .. Len(f) : \A j \in 1 .. Len(f) : i # j => f[i] # f[j]
BatchResponses(sha) ==
    {r \in Responses(sha) :
        r.outcome = "ok" =>
            \/ r.data \in {CommitBody(sha), Truncated(sha)}
            \/ /\ "stats" \in DOMAIN r.data /\ "files" \in DOMAIN r.data
               /\ "additions" \in DOMAIN r.data.stats
               /\ r.data.files = BatchFiles}

\* str(e) of the exception a failed request raises
ErrorText(outcome) ==
    IF outcome = "HTTPError" THEN "404 Client Error: Not Found"
    ELSE "Connection aborted"

\* lines 169-189: the block of one file
FileBlockAlwaysPatch(file_data, include_patch) ==
    <<"[File]", file_data.filename, "",
      "[Status]", file_data.status, "",
      "[Changes]",
      "+" \o ToString(Get(file_data, "additions", 0)) \o " -"
          \o ToString(Get(file_data, "deletions", 0)),
      "">>
      \o (IF "patch" \in DOMAIN file_data
            THEN <<"[Diff]", file_data.patch, "">> ELSE << >>)
      \o <<FileRule, "">>

FileBlock(file_data, include_patch) ==
    <<"[File]", file_data.filename, "",
      "[Status]", file_data.status, "",
      "[Changes]",
      "+" \o ToString(Get(file_data, "additions", 0)) \o " -"
          \o ToString(Get(file_data, "deletions", 0)),
      "">>
      \o (IF include_patch /\ "patch" \in DOMAIN file_data
            THEN <<"[Diff]", file_data.patch, "">> ELSE << >>)
      \o <<FileRule, "">>

\* lines 168-189: the blocks of the files, in the order of commit_data
RECURSIVE FileBlocks(_, _)
FileBlocks(files, include_patch) ==
    IF files = << >> THEN << >>
    ELSE FileBlock(Head(files), include_patch)
            \o FileBlocks(Tail(files), include_patch)

\* lines 145-165: the head of the output, up to the rule
StatLinesAlways(commit_data) ==
    LET stats == Get(commit_data, "stats", [total |-> 0])
    IN  <<"Additions: " \o ToString(Get(stats, "additions", 0)),
          "Deletions: " \o ToString(Get(stats, "deletions", 0))>>

StatLines(commit_data) ==
    IF "stats" \in DOMAIN commit_data
      THEN <<"Additions: " \o ToString(Get(commit_data.stats, "additions", 0)),
             "Deletions: " \o ToString(Get(commit_data.stats, "deletions", 0))>>
      ELSE << >>

HeadBlock(commit_data) ==
    <<"[Commit ID]", commit_data.sha, "",
      "[Description]", commit_data.commit.message, "",
      "[Author]",
      commit_data.commit.author.name \o " <"
          \o commit_data.commit.author.email \o ">",
      "",
      "[Date]", commit_data.commit.author.date, "",
      "[Stats]",
      "Files changed: " \o ToString(Len(Get(commit_data, "files", << >>)))>>
      \o StatLines(commit_data)
      \o <<"", Rule, "">>

\* lines 144-189: the list get_commit_diff joins
Output(commit_data, include_patch) ==
    HeadBlock(commit_data)
        \o FileBlocks(Get(commit_data, "files", << >>), include_patch)

\* get_commit_diff: the text it returns, or the exception it raises
\* (an HTTPError becomes a ValueError, any other exception passes through)
get_commit_diff(response, commit_id, include_patch) ==
    CASE response.outcome = "HTTPError" ->
            [raised |-> "ValueError", output |-> << >>,
             text |-> "Could not find commit " \o commit_id \o ": "
                          \o ErrorText("HTTPError")]
      [] response.outcome = "ConnectionError" ->
            [raised |-> "ConnectionError", output |-> << >>,
             text |-> ErrorText("ConnectionError")]
      [] "author" \notin DOMAIN response.data.commit ->
            [raised |-> "KeyError", output |-> << >>, text |-> "'author'"]
      [] OTHER ->
            [raised |-> "none",
             output |-> Output(response.data, include_patch),
             text |-> Join(Output(response.data, include_patch))]

\* lines 210-212: the banner of item i of n
BannerFromZero(i, n) ==
    <<"\n" \o Rule,
      "COMMIT " \o ToString(i - 1) \o " of " \o ToString(n),
      Rule \o "\n">>

Banner(i, n) ==
    <<"\n" \o Rule,
      "COMMIT " \o ToString(i) \o " of " \o ToString(n),
      Rule \o "\n">>

\* line 217: except Exception catches whatever get_commit_diff raises
CaughtValueErrorOnly(raised) == raised = "ValueError"

Caught(raised) == TRUE

\* line 218: the line that stands for an item whose diff failed
ErrorLine(commit_id, diff_result) ==
    "Error getting diff for " \o commit_id \o ": " \o diff_result.text \o "\n"

IdleDiff ==
    [pc |-> "idle", commit_ids |-> << >>, include_patch |-> TRUE,
     responses |-> << >>, all_diffs |-> << >>, output |-> << >>,
     result |-> "", error |-> "none"]

\* a direct call of get_commit_diff: one request, then the formatting
GetCommitDiff(commit_id, include_patch, response) ==
    /\ diff.pc = "idle"
    /\ LET r == get_commit_diff(response, commit_id, include_patch)
       IN  diff' = [IdleDiff EXCEPT
                      !.pc = "done", !.commit_ids = <<commit_id>>,
                      !.include_patch = include_patch,
                      !.responses = <<response>>,
                      !.output = r.output,
                      !.result = IF r.raised = "none" THEN r.text ELSE "",
                      !.error = r.raised]
    /\ UNCHANGED <<history, table, proc, tree>>

\* get_multiple_commit_diffs up to its first request; an empty list is
\* joined at once
GetMultipleCommitDiffs(commit_ids, include_patch) ==
    /\ diff.pc = "idle"
    /\ diff' = [IdleDiff EXCEPT
                  !.pc = IF commit_ids = << >> THEN "done" ELSE "many",
                  !.commit_ids = commit_ids,
                  !.include_patch = include_patch,
                  !.result = Join(<< >>)]
    /\ UNCHANGED <<history, table, proc, tree>>

\* one turn of the loop of get_multiple_commit_diffs: the banner, the
\* request, the diff or the error line; the last turn joins the list
DiffItem(response) ==
    /\ diff.pc = "many"
    /\ LET i == Len(diff.responses) + 1
           n == Len(diff.commit_ids)
           r == get_commit_diff(response, diff.commit_ids[i], diff.include_patch)
           body == IF r.raised = "none" THEN r.text
                   ELSE ErrorLine(diff.commit_ids[i], r)
           all == diff.all_diffs \o Banner(i, n) \o <<body>>
       IN  IF r.raised # "none" /\ ~Caught(r.raised)
             THEN diff' = [diff EXCEPT
                             !.pc = "done", !.error = r.raised,
                             !.responses = Append(@, response),
                             !.all_diffs = diff.all_diffs \o Banner(i, n)]
             ELSE diff' = [diff EXCEPT
                             !.pc = IF i = n THEN "done" ELSE "many",
                             !.responses = Append(@, response),
                             !.all_diffs = all,
                             !.output = r.output,
                             !.result = IF i = n THEN Join(all) ELSE @]
    /\ UNCHANGED <<history, table, proc, tree>>

\* ------------------------------------------------------------- TreeRenderer
\* treeprinter.py  print_tree
\*
\* The box-drawing glyphs are written in ASCII, one character for one:
\* "|" for U+2502, "|--" for U+251C U+2500 U+2500, "+--" for U+2514 U+2500
\* U+2500.
Bar == "|   "
Blank == "    "
Tee == "|-- "
Elbow == "+-- "

\* the rows of a query result with these depths: row i has id i
RowsOf(depths) ==
    [i \in 1 .. Len(depths) |->
        [id |-> i, name |-> "t" \o ToString(i), depth |-> depths[i]]]

\* f"{name} ({node_id})"
LabelOf(row) == row.name \o " (" \o ToString(row.id) \o ")"

\* lines 30-35: one cell for each d of range(start, depth)
PrefixFromZero(depth, active_depths) ==
    [k \in 1 .. depth |-> IF (k - 1) \in active_depths THEN Bar ELSE Blank]

Prefix(depth, active_depths) ==
    [k \in 1 .. (depth - 1) |-> IF k \in active_depths THEN Bar ELSE Blank]

\* prefix += cell, for the cells in turn
RECURSIVE Concat(_)
Concat(cells) ==
    IF cells = << >> THEN "" ELSE Head(cells) \o Concat(Tail(cells))

\* lines 38-44: the scan of rows[j] for j in range(from, len(rows))
RECURSIVE ScanNoBreak(_, _, _)
ScanNoBreak(rows, from, depth) ==
    IF from > Len(rows) THEN FALSE
    ELSE IF rows[from].depth = depth THEN TRUE
    ELSE ScanNoBreak(rows, from + 1, depth)

RECURSIVE Scan(_, _, _)
Scan(rows, from, depth) ==
    IF from > Len(rows) THEN FALSE
    ELSE IF rows[from].depth < depth THEN FALSE
    ELSE IF rows[from].depth = depth THEN TRUE
    ELSE Scan(rows, from + 1, depth)

\* lines 47-52: active_depths after a row at this depth
ActiveKeepsClosed(active_depths, depth, has_more_siblings) ==
    active_depths \cup {depth}

ActiveAfter(active_depths, depth, has_more_siblings) ==
    IF has_more_siblings THEN active_depths \cup {depth}
    ELSE active_depths \ {depth}

\* lines 18-53: one turn of the loop, on row i; what the turn drew is kept
\* with the line
RenderRow(rows, i, st) ==
    LET row == rows[i]
        depth == row.depth
        prefix == Prefix(depth, st.active_depths)
        has_more_siblings == Scan(rows, i + 1, depth)
        connector == IF has_more_siblings THEN Tee ELSE Elbow
    IN  IF depth = 0
          THEN [st EXCEPT
                  !.lines = Append(@, LabelOf(row)),
                  !.drawn = Append(@, [prefix |-> << >>, connector |-> "",
                                       active_depths |-> st.active_depths])]
          ELSE [active_depths |->
                    ActiveAfter(st.active_depths, depth, has_more_siblings),
                lines |-> Append(st.lines,
                                 Concat(prefix) \o connector \o LabelOf(row)),
                drawn |-> Append(st.drawn,
                                 [prefix |-> prefix, connector |-> connector,
                                  active_depths |-> st.active_depths])]

\* lines 15-16: the locals before the loop
NoLines == [active_depths |-> {}, lines |-> << >>, drawn |-> << >>]

RECURSIVE RenderFrom(_, _, _)
RenderFrom(rows, i, st) ==
    IF i > Len(rows) THEN st
    ELSE RenderFrom(rows, i + 1, RenderRow(rows, i, st))

\* print_tree(rows)
print_tree(rows) ==
    IF rows = << >> THEN "" ELSE Join(RenderFrom(rows, 1, NoLines).lines)

IdleTree ==
    [pc |-> "idle", rows |-> << >>, i |-> 0, st |-> NoLines,
     result |-> "", error |-> "none"]

\* print_tree up to its loop; no rows are answered at once
PrintTree(rows) ==
    /\ tree.pc = "idle"
    /\ tree' = [IdleTree EXCEPT
                  !.pc = IF rows = << >> THEN "done" ELSE "loop",
                  !.rows = rows]
    /\ UNCHANGED <<history, table, proc, diff>>

\* one turn of the loop of print_tree; the last turn joins the lines
TreeRow ==
    /\ tree.pc = "loop"
    /\ LET i == tree.i + 1
           st == RenderRow(tree.rows, i, tree.st)
       IN  tree' = [tree EXCEPT
                      !.i = i,
                      !.st = st,
                      !.pc = IF i = Len(tree.rows) THEN "done" ELSE "loop",
                      !.result = IF i = Len(tree.rows)
                                   THEN Join(st.lines) ELSE @]
    /\ UNCHANGED <<history, table, proc, diff>>


Init ==
    /\ history = [repo \in Repos |-> << >>]
    /\ table = << >>
    /\ proc = [p \in Procs |-> IdleProc]
    /\ diff = IdleDiff
    /\ tree = IdleTree

\* ------------------------------------------------------- the specifications
\* Spec: one client syncs one repository, its requests served one after
\* the other, while commits are pushed; both branches list the same commits
Clients == {"p1"}
Synced == {"r1"}

Next ==
    \/ \E repo \in Synced : Push(repo)
    \/ \E p \in Clients, repo_id \in Synced, branch \in Branches,
          max_commits \in MaxCommitsValues \cup LargeMaxCommits,
          update_last_sync \in BOOLEAN :
            AnalyzeCommits(p, repo_id, branch, max_commits, update_last_sync)
    \/ \E p \in Clients : RefLookup(p)
    \/ \E p \in Clients : ListPage(p)
    \/ \E p \in Clients : FirstSync(p)
    \/ \E p \in Clients : UpdRead(p)
    \/ \E p \in Clients : UpdWrite(p)
    \/ \E p \in Clients, repo_name \in Synced, last_commit_hash \in Hashes :
            UpdateRepoSyncState(p, repo_name, last_commit_hash)
    \/ \E p \in Clients, repo_name \in Synced : GetRepoSyncState(p, repo_name)

Spec == Init /\ [][Next]_vars

\* SpecConc: two workers serve analyze_commits requests for the same
\* repository concurrently, every request with update_last_sync set
NextConc ==
    \/ \E repo \in Synced : Push(repo)
    \/ \E p \in Procs, repo_id \in Synced, branch \in DefaultBranch,
          max_commits \in {ConcMaxCommits}, update_last_sync \in {TRUE} :
            AnalyzeCommits(p, repo_id, branch, max_commits, update_last_sync)
    \/ \E p \in Procs : RefLookup(p)
    \/ \E p \in Procs : ListPage(p)
    \/ \E p \in Procs : FirstSync(p)
    \/ \E p \in Procs : UpdRead(p)
    \/ \E p \in Procs : UpdWrite(p)

SpecConc == Init /\ [][NextConc]_vars

\* SpecStore: one client, its requests served one after the other, syncs one
\* repository and reads and writes the checkpoints of all repositories
NextStore ==
    \/ \E repo \in Synced : Push(repo)
    \/ \E p \in Clients, repo_id \in Synced, branch \in DefaultBranch,
          max_commits \in MaxCommitsValues, update_last_sync \in BOOLEAN :
            AnalyzeCommits(p, repo_id, branch, max_commits, update_last_sync)
    \/ \E p \in Clients : RefLookup(p)
    \/ \E p \in Clients : ListPage(p)
    \/ \E p \in Clients : FirstSync(p)
    \/ \E p \in Clients : UpdRead(p)
    \/ \E p \in Clients : UpdWrite(p)
    \/ \E p \in Clients, repo_name \in Repos, last_commit_hash \in Hashes :
            UpdateRepoSyncState(p, repo_name, last_commit_hash)
    \/ \E p \in Clients, repo_name \in Repos : GetRepoSyncState(p, repo_name)

SpecStore == Init /\ [][NextStore]_vars

\* SpecQuiet: as Spec, but commits are pushed only between two requests, so
\* that the listing does not change while a call is served
NextQuiet ==
    \/ \E repo \in Synced :
          /\ \A p \in Clients : proc[p].pc \in {"idle", "done"}
          /\ Push(repo)
    \/ \E p \in Clients, repo_id \in Synced, branch \in Branches,
          max_commits \in MaxCommitsValues \cup LargeMaxCommits,
          update_last_sync \in BOOLEAN :
            AnalyzeCommits(p, repo_id, branch, max_commits, update_last_sync)
    \/ \E p \in Clients : RefLookup(p)
    \/ \E p \in Clients : ListPage(p)
    \/ \E p \in Clients : FirstSync(p)
    \/ \E p \in Clients : UpdRead(p)
    \/ \E p \in Clients : UpdWrite(p)
    \/ \E p \in Clients, repo_name \in Synced, last_commit_hash \in Hashes :
            UpdateRepoSyncState(p, repo_name, last_commit_hash)
    \/ \E p \in Clients, repo_name \in Synced : GetRepoSyncState(p, repo_name)

SpecQuiet == Init /\ [][NextQuiet]_vars

\* SpecSyncs: one client sends nothing but analyze_commits requests with
\* update_last_sync set, one after the other, for a repository that
\* receives up to MaxHist + 1 commits, some of them during a request
SyncMaxCommits == {1, ConcMaxCommits}

NextSyncs ==
    \/ \E repo \in Synced : PushUpTo(repo, MaxHist + 1)
    \/ \E p \in Clients, repo_id \in Synced, branch \in DefaultBranch,
          max_commits \in SyncMaxCommits, update_last_sync \in {TRUE} :
            AnalyzeCommits(p, repo_id, branch, max_commits, update_last_sync)
    \/ \E p \in Clients : RefLookup(p)
    \/ \E p \in Clients : ListPage(p)
    \/ \E p \in Clients : FirstSync(p)
    \/ \E p \in Clients : UpdRead(p)
    \/ \E p \in Clients : UpdWrite(p)

SpecSyncs == Init /\ [][NextSyncs]_vars

\* SpecFormat: one call that formats commit diffs, of one commit or of a
\* batch of up to MaxIds commit ids (a call keeps nothing for the next)
DiffIds == {"c1", "c2"}
IdLists == UNION {[1 .. n -> DiffIds] : n \in 0 .. MaxIds}

NextFormat ==
    \/ /\ diff.pc = "idle"
       /\ \E commit_id \in DiffIds, include_patch \in BOOLEAN :
             \E response \in Responses(commit_id) :
                 GetCommitDiff(commit_id, include_patch, response)
    \/ /\ diff.pc = "idle"
       /\ \E commit_ids \in IdLists, include_patch \in BOOLEAN :
             GetMultipleCommitDiffs(commit_ids, include_patch)
    \/ /\ diff.pc = "many"
       /\ \E response \in
                BatchResponses(diff.commit_ids[Len(diff.responses) + 1]) :
              DiffItem(response)

SpecFormat == Init /\ [][NextFormat]_vars

\* SpecTree: one call of print_tree on up to MaxRows rows whose depths are
\* any numbers up to MaxDepth, pre-order listings and others
DepthLists == UNION {[1 .. n -> 0 .. MaxDepth] : n \in 0 .. MaxRows}

NextTree ==
    \/ /\ tree.pc = "idle"
       /\ \E depths \in DepthLists : PrintTree(RowsOf(depths))
    \/ TreeRow

SpecTree == Init /\ [][NextTree]_vars

\* ------------------------------------------------------------------ claims
\* the request p serves is an analyze_commits that found a checkpoint, so
\* that it calls get_commits_since
Incremental(p) ==
    proc[p].op = "analyze_commits" /\ proc[p].sync_state # << >>

\* get_commits_since has returned to analyze_commits
Fetched(p) ==
    /\ Incremental(p)
    /\ proc[p].pc \in {"upd_read", "upd_write", "done"}
    /\ proc[p].error = "none"

\* the list requests of p's call, in the order they were sent
ListRequests(p) == SelectSeq(proc[p].requests, LAMBDA r : r.kind = "list")

RECURSIVE SumRows(_)
SumRows(rs) == IF rs = << >> THEN 0 ELSE Head(rs).rows + SumRows(Tail(rs))

\* C1: whatever the source lists, on whatever page, the sequence
\* get_commits_since accumulates and returns holds no record whose id is the
\* checkpoint's (since_commit_id).
C1_CheckpointExcluded ==
    \A p \in Procs :
        Incremental(p) =>
            /\ \A i \in DOMAIN proc[p].all_commits :
                 proc[p].all_commits[i].commit_id # proc[p].since_commit_id
            /\ \A i \in DOMAIN proc[p].commits :
                 proc[p].commits[i].commit_id # proc[p].since_commit_id

\* a call that returned records although the source listed the checkpoint
\* record itself on a page: one listed row more than was kept, with room left
C1_Witness ==
    \E p \in Procs :
        /\ Fetched(p) /\ proc[p].pc = "done"
        /\ proc[p].commits # << >>
        /\ Len(proc[p].commits) < proc[p].max_commits
        /\ SumRows(ListRequests(p)) = Len(proc[p].commits) + 1

\* C2: the sequence get_commits_since holds is never longer than
\* max_commits, between two pages as well as at the return.
C2_AtMostMaxCommits ==
    \A p \in Procs :
        Incremental(p) =>
            /\ Len(proc[p].all_commits) <= proc[p].max_commits
            /\ Len(proc[p].commits) <= proc[p].max_commits

\* a call that returned exactly max_commits records, taken from two pages
C2_Witness ==
    \E p \in Procs :
        /\ Fetched(p)
        /\ proc[p].max_commits >= 2
        /\ Len(proc[p].commits) = proc[p].max_commits
        /\ Len(ListRequests(p)) = 2

\* C3: once a page comes back with fewer rows than per_page (an empty page
\* included), that list request is the last of the call and the call has
\* returned what it had accumulated.
C3_ShortPageStops ==
    \A p \in Procs :
        Incremental(p) =>
            \A i \in DOMAIN proc[p].requests :
                LET r == proc[p].requests[i]
                IN  (r.kind = "list" /\ r.rows >= 0 /\ r.rows < r.per_page) =>
                        /\ i = Len(proc[p].requests)
                        /\ Fetched(p)
                        /\ proc[p].commits = proc[p].all_commits

\* a call ended by a short second page that still brought a record
C3_Witness ==
    \E p \in Procs :
        /\ Fetched(p)
        /\ Len(ListRequests(p)) = 2
        /\ ListRequests(p)[2].rows >= 1
        /\ ListRequests(p)[2].rows < ListRequests(p)[2].per_page
        /\ Len(proc[p].commits) < proc[p].max_commits

\* C4: no list request is sent once max_commits records are held, full last
\* page or not; and a call that returned had met one of the two stop
\* conditions: max_commits held, or a page shorter than per_page.
C4_StopsAtMaxCommits ==
    \A p \in Procs :
        Incremental(p) =>
            /\ proc[p].pc = "list" =>
                 Len(proc[p].all_commits) < proc[p].max_commits
            /\ \A i \in DOMAIN proc[p].requests :
                 (i < Len(proc[p].requests) /\ proc[p].requests[i].kind = "list")
                    => proc[p].requests[i].rows = proc[p].requests[i].per_page
            /\ Fetched(p) =>
                 \/ Len(proc[p].commits) >= proc[p].max_commits
                 \/ /\ ListRequests(p) # << >>
                    /\ ListRequests(p)[Len(ListRequests(p))].rows
                         < ListRequests(p)[Len(ListRequests(p))].per_page

\* a call that stopped on max_commits after a full page while the source
\* still had rows to list
C4_Witness ==
    \E p \in Procs :
        /\ Fetched(p)
        /\ ListRequests(p) # << >>
        /\ LET r == ListRequests(p)[Len(ListRequests(p))]
           IN  /\ r.rows = r.per_page
               /\ Len(ListedSince(proc[p].repo_id, proc[p].since_date))
                    > r.page * r.per_page
        /\ Len(proc[p].commits) = proc[p].max_commits

\* the commit of p's repository with this sha (every returned id is listed)
CommitOf(p, sha) == LookupCommit(proc[p].repo_id, sha)[1]

\* C5: the checkpoint is an exclusive lower bound: every record the call
\* returns is newer than the checkpoint record, that is, carries a later
\* timestamp or, at the least, was pushed after it; a record pushed before
\* the checkpoint that only shares its timestamp is not returned.
C5_ExclusiveLowerBound ==
    \A p \in Procs :
        Fetched(p) =>
            \A i \in DOMAIN proc[p].commits :
                \/ CommitOf(p, proc[p].commits[i].commit_id).date
                     > proc[p].since_date
                \/ proc[p].commits[i].commit_id > proc[p].since_commit_id

\* C6: when the lookup of the checkpoint record fails, for whatever reason,
\* the call fails with ReferenceNotFound (the ValueError of
\* get_commits_since), sends no list request and returns no records.
C6_ReferenceNotFound ==
    \A p \in Procs :
        ( /\ Incremental(p)
          /\ proc[p].requests # << >>
          /\ proc[p].requests[1].kind = "ref"
          /\ proc[p].requests[1].rows = -1 ) =>
            /\ proc[p].pc = "done"
            /\ proc[p].error = "ValueError"
            /\ ListRequests(p) = << >>
            /\ proc[p].commits = << >>

\* C7: a list request that fails after the reference was resolved ends the
\* call with the transport's error and without the records held so far;
\* nothing is retried: the failed request is the last of the call, and the
\* reference lookup and each page number are requested at most once.
C7_ListFailureIsFatal ==
    \A p \in Procs :
        Incremental(p) =>
            /\ \A i \in DOMAIN proc[p].requests :
                 (proc[p].requests[i].kind = "list"
                    /\ proc[p].requests[i].rows = -1) =>
                        /\ i = Len(proc[p].requests)
                        /\ proc[p].pc = "done"
                        /\ proc[p].status = 500
                        /\ proc[p].error \in {"HTTPError", "ConnectionError"}
                        /\ proc[p].commits = << >>
            /\ \A i, j \in DOMAIN proc[p].requests :
                 ( /\ i < j
                   /\ proc[p].requests[i].kind = proc[p].requests[j].kind )
                    => proc[p].requests[i].page # proc[p].requests[j].page

\* a call whose second list request failed while it held a record
C7_Witness ==
    \E p \in Procs :
        /\ Incremental(p)
        /\ proc[p].pc = "done"
        /\ Len(ListRequests(p)) = 2
        /\ ListRequests(p)[2].rows = -1
        /\ proc[p].all_commits # << >>

\* C8: get_commits_since writes no checkpoint, and no step of an
\* analyze_commits request with update_last_sync = false changes the
\* repo_sync_state table: on first sync no row is created, on incremental
\* sync the row keeps its value.
C8_NoWriteWithoutFlag ==
    [][\A p \in Procs :
          proc'[p] # proc[p] =>
            /\ proc[p].pc \in {"ref", "list"} => table' = table
            /\ ( /\ proc'[p].op = "analyze_commits"
                 /\ ~proc'[p].update_last_sync ) => table' = table]_vars

\* a first sync without the flag that returned commits and left the
\* repository without a checkpoint
C8_Witness ==
    \E p \in Procs :
        /\ proc[p].op = "analyze_commits" /\ proc[p].pc = "done"
        /\ ~proc[p].update_last_sync
        /\ proc[p].sync_state = << >>
        /\ proc[p].status = 200 /\ proc[p].commits # << >>
        /\ SelectRepo(table, proc[p].repo_id) = << >>

\* C9: the table never holds more than one checkpoint row for a repository,
\* whatever update_repo_sync_state calls have run, concurrent ones included.
C9_OneCheckpointPerRepo ==
    \A repo \in Repos : Len(SelectRepo(table, repo)) <= 1

\* C10: with calls served one after the other, an update_repo_sync_state(s, r)
\* that returns leaves exactly one row for s, holding r, whether or not a
\* row holding r was there before, and leaves the rows of every other
\* repository as they were; a get_repo_sync_state(s) that follows it
\* returns r.
C10_SequentialUpsert ==
    [][\A p \in Procs :
          /\ (proc[p].pc = "upd_write" /\ proc'[p].pc = "done") =>
                /\ Len(SelectRepo(table', proc[p].repo_id)) = 1
                /\ SelectRepo(table', proc[p].repo_id)[1].last_commit_hash
                     = proc[p].last_commit_hash
                /\ \A other \in Repos \ {proc[p].repo_id} :
                     SelectRepo(table', other) = SelectRepo(table, other)
          /\ ( /\ proc[p].pc = "done"
               /\ proc[p].op = "update_repo_sync_state"
               /\ proc'[p].op = "get_repo_sync_state"
               /\ proc'[p].repo_id = proc[p].repo_id ) =>
                /\ proc'[p].returned # << >>
                /\ proc'[p].returned[1].last_commit_hash
                     = proc[p].last_commit_hash]_vars

\* a second update_repo_sync_state(s, r) has returned: the row it read was
\* the one an insert of r had created, the table holds one row for s, with
\* r, and another repository has its checkpoint
C10_Witness ==
    \E p \in Procs :
        /\ proc[p].op = "update_repo_sync_state" /\ proc[p].pc = "done"
        /\ proc[p].existing # << >>
        /\ proc[p].existing[1].last_commit_hash = proc[p].last_commit_hash
        /\ proc[p].existing[1].last_synced_at = "default"
        /\ Len(SelectRepo(table, proc[p].repo_id)) = 1
        /\ proc[p].returned[1].last_commit_hash = proc[p].last_commit_hash
        /\ \E other \in Repos \ {proc[p].repo_id} :
             SelectRepo(table, other) # << >>

\* C11: checkpoint access is a read followed, later, by a write, and the
\* write is unconditional: once update_repo_sync_state has read a row,
\* whatever the table holds when it writes, its write leaves the
\* repository's checkpoint at the writer's value and the request answers
\* 200. Two concurrent syncs that read the same checkpoint therefore both
\* write, the last write stands, the other is lost, and no call reports an
\* error.
C11_LastWriteWins ==
    [][\A p \in Procs :
          ( /\ proc[p].pc = "upd_write"
            /\ proc[p].existing # << >>
            /\ proc'[p] # proc[p] ) =>
            /\ SelectRepo(table', proc[p].repo_id) # << >>
            /\ \A i \in DOMAIN table' :
                 table'[i].repo_name = proc[p].repo_id =>
                    table'[i].last_commit_hash = proc[p].last_commit_hash
            /\ proc'[p].pc = "done"
            /\ proc'[p].status = 200
            /\ proc'[p].error = "none"]_vars

\* two syncs with the flag read the same checkpoint, both wrote and both
\* answered 200; the table holds the value of the one that wrote last, an
\* older commit than the one the other had committed
C11_Witness ==
    \E p, q \in Procs :
        /\ p # q
        /\ \A w \in {p, q} :
             /\ proc[w].op = "analyze_commits" /\ proc[w].pc = "done"
             /\ proc[w].update_last_sync
             /\ proc[w].status = 200 /\ proc[w].writes = 1
        /\ proc[p].repo_id = proc[q].repo_id
        /\ proc[p].sync_state # << >>
        /\ proc[p].sync_state = proc[q].sync_state
        /\ proc[p].last_commit_hash < proc[q].last_commit_hash
        /\ Len(SelectRepo(table, proc[p].repo_id)) = 1
        /\ SelectRepo(table, proc[p].repo_id)[1].last_commit_hash
             = proc[p].last_commit_hash

\* the request p serves is an analyze_commits that found no checkpoint
FirstSyncOf(p) ==
    proc[p].op = "analyze_commits" /\ proc[p].sync_state = << >>

\* the place of the commit with this sha in its repository's listing
RECURSIVE IndexOf(_, _)
IndexOf(seq, sha) ==
    IF seq = << >> THEN 0
    ELSE IF Head(seq).sha = sha THEN 1
    ELSE 1 + IndexOf(Tail(seq), sha)

\* the records are those of consecutive rows of the source, in its order,
\* each reduced to its id and the first line of its message
InSourceOrder(p, commits) ==
    /\ \A i \in DOMAIN commits :
         /\ LookupCommit(proc[p].repo_id, commits[i].commit_id) # << >>
         /\ commits[i].description
              = FirstLine(CommitOf(p, commits[i].commit_id).message)
    /\ \A i \in 1 .. Len(commits) - 1 :
         IndexOf(history[proc[p].repo_id], commits[i + 1].commit_id)
            = IndexOf(history[proc[p].repo_id], commits[i].commit_id) + 1

\* C12: a first sync sends exactly one list request, for page 1 with
\* per_page = min(max_commits, 10) and no since filter, sends no other
\* request whatever the length of the page, and returns the rows of that
\* page as {commit_id, description} in the order of the source.
C12_FirstSyncOnePage ==
    \A p \in Procs :
        FirstSyncOf(p) =>
            /\ proc[p].pc \in {"latest", "upd_read", "upd_write", "done"}
            /\ proc[p].pc = "latest" => proc[p].requests = << >>
            /\ proc[p].pc # "latest" =>
                 /\ Len(proc[p].requests) = 1
                 /\ proc[p].requests[1].kind = "list"
                 /\ proc[p].requests[1].page = 1
                 /\ proc[p].requests[1].since = 0
                 /\ proc[p].requests[1].branch = proc[p].branch
                 /\ proc[p].requests[1].per_page
                      = Min(proc[p].max_commits, FirstSyncCap)
                 /\ proc[p].requests[1].rows >= 0 =>
                      /\ Len(proc[p].commits) = proc[p].requests[1].rows
                      /\ InSourceOrder(p, proc[p].commits)

\* a first sync that returned a full page of two or more records while the
\* repository held more commits than the page
C12_Witness ==
    \E p \in Procs :
        /\ FirstSyncOf(p) /\ proc[p].pc = "done" /\ proc[p].status = 200
        /\ Len(proc[p].commits) >= 2
        /\ Len(proc[p].commits) = proc[p].requests[1].per_page
        /\ proc[p].commits[1].commit_id - Len(proc[p].commits) >= 1

\* the first max_commits rows of the listing since `since`, the checkpoint
\* row removed, each as its id and the first line of its message
ExpectedSince(repo, since, since_commit_id, max_commits) ==
    LET kept == SelectSeq(ListedSince(repo, since),
                          LAMBDA c : c.sha # since_commit_id)
    IN  [i \in 1 .. Min(max_commits, Len(kept)) |->
            [commit_id |-> kept[i].sha,
             description |-> FirstLine(kept[i].message)]]

\* C19: when the listing does not change during the call, get_commits_since
\* returns the first max_commits records of the listing (its pages one
\* after the other) without the checkpoint record, in the order of the
\* source, each as {commit_id, first line of the message}; all of them when
\* there are fewer than max_commits.
C19_FirstMaxOfListing ==
    [][\A p \in Procs :
          ( /\ proc[p].pc \in {"ref", "list"}
            /\ proc'[p].pc \in {"upd_read", "done"}
            /\ proc'[p].error = "none" ) =>
                proc'[p].commits =
                    ExpectedSince(proc[p].repo_id, proc'[p].since_date,
                                  proc[p].since_commit_id,
                                  proc[p].max_commits)]_vars

\* a call that took two pages, skipped the checkpoint record and returned
\* two records or more
C19_Witness ==
    \E p \in Procs :
        /\ Fetched(p)
        /\ Len(ListRequests(p)) = 2
        /\ Len(proc[p].commits) >= 2
        /\ SumRows(ListRequests(p)) > Len(proc[p].commits)
        /\ proc[p].commits =
             ExpectedSince(proc[p].repo_id, proc[p].since_date,
                           proc[p].since_commit_id, proc[p].max_commits)

\* C20: in one get_commits_since call the reference lookup comes first and
\* succeeded before any list request; every list request carries the
\* request's branch, since = the checkpoint commit's date and
\* per_page = min(max_commits, 100); the i-th list request asks for page i.
C20_RequestSequence ==
    \A p \in Procs :
        Incremental(p) =>
            /\ proc[p].pc = "ref" <=> proc[p].requests = << >>
            /\ \A i \in DOMAIN proc[p].requests :
                 LET r == proc[p].requests[i]
                 IN  IF i = 1
                     THEN r.kind = "ref" /\ r.sha = proc[p].since_commit_id
                     ELSE /\ r.kind = "list"
                          /\ proc[p].requests[1].rows = 1
                          /\ r.branch = proc[p].branch
                          /\ r.since
                               = CommitOf(p, proc[p].since_commit_id).date
                          /\ r.per_page = Min(proc[p].max_commits, PerPageCap)
                          /\ r.page = i - 1

\* a call on branch dev that has sent the list requests for pages 1, 2
\* and 3
C20_Witness ==
    \E p \in Procs :
        /\ Incremental(p)
        /\ proc[p].branch = "dev"
        /\ Len(ListRequests(p)) = 3
        /\ ListRequests(p)[3].rows >= 0

\* ------------------------------------------------------------ DiffFormatter
\* the state after a direct call of get_commit_diff
DirectDone ==
    /\ diff.pc = "done"
    /\ Len(diff.responses) = 1
    /\ diff.all_diffs = << >>

\* the lines that mark a section or close a block
SectionLabels ==
    {"[Commit ID]", "[Description]", "[Author]", "[Date]", "[Stats]", Rule,
     "[File]", "[Status]", "[Changes]", "[Diff]", FileRule}

\* the section marks of a list of lines, in order
Labels(output) == SelectSeq(output, LAMBDA l : l \in SectionLabels)

\* the lines that follow the occurrences of a label, in order
After(output, label) ==
    LET at == SelectSeq([i \in 1 .. Len(output) |-> i],
                        LAMBDA i : output[i] = label)
    IN  [k \in 1 .. Len(at) |-> output[at[k] + 1]]

\* the marks a record calls for: the head, then for each file its marks
RECURSIVE FileLabels(_, _)
FileLabels(files, include_patch) ==
    IF files = << >> THEN << >>
    ELSE <<"[File]", "[Status]", "[Changes]">>
           \o (IF include_patch /\ "patch" \in DOMAIN Head(files)
                 THEN <<"[Diff]">> ELSE << >>)
           \o <<FileRule>>
           \o FileLabels(Tail(files), include_patch)

PatchesOf(files) ==
    LET with == SelectSeq(files, LAMBDA f : "patch" \in DOMAIN f)
    IN  [k \in 1 .. Len(with) |-> with[k].patch]

CountLines == {ToString(k) : k \in 0 .. 9}

\* the state after a call of get_multiple_commit_diffs
ManyDone == diff.pc = "done" /\ ~DirectDone

\* the lookup or the formatting of item i failed
Failing(i) ==
    \/ diff.responses[i].outcome # "ok"
    \/ "author" \notin DOMAIN diff.responses[i].data.commit

\* what an error line can give as the reason
Reasons ==
    {ErrorText("ConnectionError"), "'author'"}
      \cup {"Could not find commit " \o c \o ": " \o ErrorText("HTTPError") :
                c \in DiffIds}

\* the batch ended without an error and holds, for each of its N ids in
\* input order, a banner that reads "<word> i of N" between two rules
\* and then the body of item i: an error line if the item failed, else
\* the text get_commit_diff gives for the item alone
BatchOf(word) ==
    LET n == Len(diff.commit_ids)
        all == diff.all_diffs
    IN  /\ diff.error = "none"
        /\ Len(diff.responses) = n
        /\ Len(all) = 4 * n
        /\ diff.result = Join(all)
        /\ \A i \in 1 .. n :
              /\ all[4 * i - 3] = "\n" \o Rule
              /\ all[4 * i - 2] =
                    word \o " " \o ToString(i) \o " of " \o ToString(n)
              /\ all[4 * i - 1] = Rule \o "\n"
              /\ IF Failing(i)
                   THEN all[4 * i] \in
                          {"Error getting diff for " \o diff.commit_ids[i]
                              \o ": " \o reason \o "\n" : reason \in Reasons}
                   ELSE all[4 * i] =
                          get_commit_diff(diff.responses[i], diff.commit_ids[i],
                                          diff.include_patch).text

\* C13 as stated: whatever items fail, get_multiple_commit_diffs ends
\* without an error with N items in input order, item i under the banner
\* "ITEM i of N", a failed item as an inline error line, every other item
\* as its get_commit_diff block, untouched by the failures around it.
C13_ItemBanner == ManyDone => BatchOf("ITEM")

\* C13 amended: the same, with the banner reading "COMMIT i of N".
C13_BatchIsolation == ManyDone => BatchOf("COMMIT")

\* a batch of three ids ended, the lookup of the second failed and the
\* first and the third were formatted
C13_Witness ==
    /\ ManyDone
    /\ Len(diff.commit_ids) = 3
    /\ Len(diff.responses) = 3
    /\ ~Failing(1) /\ diff.responses[2].outcome = "HTTPError" /\ ~Failing(3)
    /\ diff.all_diffs[6] = "COMMIT 2 of 3"
    /\ diff.all_diffs[10] = "COMMIT 3 of 3"

\* C14: get_commit_diff emits identifier, message, author, date, stats,
\* the rule, then one block per file in the order of the record (path,
\* status, +additions -deletions, the patch if any, a rule); the
\* Additions and Deletions lines appear exactly when the record has stats,
\* a [Diff] section exactly for a file that has a patch when patches are
\* asked for; a failed lookup raises and returns no text.
C14_SectionOrder ==
    DirectDone =>
      LET response == diff.responses[1]
          data == response.data
          files == Get(data, "files", << >>)
          out == diff.output
      IN  IF response.outcome # "ok"
            THEN diff.error # "none" /\ diff.result = "" /\ out = << >>
          ELSE IF "author" \notin DOMAIN data.commit
            THEN diff.error # "none" /\ diff.result = ""
          ELSE
            /\ diff.error = "none"
            /\ diff.result = Join(out)
            /\ Labels(out) =
                 <<"[Commit ID]", "[Description]", "[Author]", "[Date]",
                   "[Stats]", Rule>> \o FileLabels(files, diff.include_patch)
            /\ After(out, "[Commit ID]") = <<data.sha>>
            /\ After(out, "[Description]") = <<data.commit.message>>
            /\ After(out, "[Author]") =
                 <<data.commit.author.name \o " <"
                       \o data.commit.author.email \o ">">>
            /\ After(out, "[Date]") = <<data.commit.author.date>>
            /\ After(out, "[Stats]") =
                 <<"Files changed: " \o ToString(Len(files))>>
            /\ ("stats" \in DOMAIN data) <=>
                 (\E i \in 1 .. Len(out) :
                      out[i] \in {"Additions: " \o c : c \in CountLines})
            /\ ("stats" \in DOMAIN data) <=>
                 (\E i \in 1 .. Len(out) :
                      out[i] \in {"Deletions: " \o c : c \in CountLines})
            /\ "stats" \in DOMAIN data =>
                 /\ out[15] = "Additions: "
                        \o ToString(Get(data.stats, "additions", 0))
                 /\ out[16] = "Deletions: "
                        \o ToString(Get(data.stats, "deletions", 0))
            /\ After(out, "[File]") =
                 [k \in 1 .. Len(files) |-> files[k].filename]
            /\ After(out, "[Status]") =
                 [k \in 1 .. Len(files) |-> files[k].status]
            /\ After(out, "[Changes]") =
                 [k \in 1 .. Len(files) |->
                    "+" \o ToString(Get(files[k], "additions", 0)) \o " -"
                        \o ToString(Get(files[k], "deletions", 0))]
            /\ After(out, "[Diff]") =
                 IF diff.include_patch THEN PatchesOf(files) ELSE << >>

\* a commit with stats and two files, one of them without a patch, was
\* formatted with its patches
C14_Witness ==
    /\ DirectDone
    /\ diff.error = "none"
    /\ diff.include_patch
    /\ "stats" \in DOMAIN diff.responses[1].data
    /\ "files" \in DOMAIN diff.responses[1].data
    /\ Len(diff.responses[1].data.files) = 2
    /\ Len(After(diff.output, "[Diff]")) = 1
    /\ After(diff.output, "[File]") = <<"b.png", "a.py">>

\* ------------------------------------------------------------- TreeRenderer
\* a pre-order listing of a forest: the first row is a root and no row is
\* more than one level below the row before it
Valid(rows) ==
    \/ rows = << >>
    \/ /\ rows[1].depth = 0
       /\ \A i \in 2 .. Len(rows) : rows[i].depth <= rows[i - 1].depth + 1

\* the parent of row i in a pre-order listing: the nearest earlier row
\* one level up (0 for a root)
Parent(rows, i) ==
    IF rows[i].depth = 0 THEN 0
    ELSE CHOOSE j \in 1 .. (i - 1) :
            /\ rows[j].depth = rows[i].depth - 1
            /\ \A m \in (j + 1) .. (i - 1) : rows[m].depth # rows[i].depth - 1

\* the ancestor of row i at depth k (row i itself at its own depth)
RECURSIVE Ancestor(_, _, _)
Ancestor(rows, i, k) ==
    IF rows[i].depth = k THEN i ELSE Ancestor(rows, Parent(rows, i), k)

\* a later row is a child of the parent of row i
LaterSibling(rows, i) ==
    \E j \in (i + 1) .. Len(rows) :
        /\ rows[j].depth = rows[i].depth
        /\ Parent(rows, j) = Parent(rows, i)

\* C15: in a pre-order listing a row at depth d > 0 gets the connector
\* "|-- " exactly when a later row at depth d comes before any later row
\* of a smaller depth, that is, when a later sibling under the same parent
\* exists, and "+-- " otherwise; a row at depth 0 is the line
\* "{name} ({id})" alone.
C15_Connectors ==
    Valid(tree.rows) =>
      \A i \in 1 .. tree.i :
        LET rows == tree.rows
            d == rows[i].depth
            label == rows[i].name \o " (" \o ToString(rows[i].id) \o ")"
            drew == tree.st.drawn[i]
            next_is_sibling ==
                \E j \in (i + 1) .. Len(rows) :
                    /\ rows[j].depth = d
                    /\ \A m \in (i + 1) .. (j - 1) : rows[m].depth >= d
        IN  IF d = 0 THEN tree.st.lines[i] = label
            ELSE /\ drew.connector = IF next_is_sibling THEN Tee ELSE Elbow
                 /\ next_is_sibling <=> LaterSibling(rows, i)
                 /\ tree.st.lines[i] =
                        Concat(drew.prefix) \o drew.connector \o label

\* a listing with two roots was rendered: a child with a later sibling, a
\* last child followed by a deeper row's uncle, and a second root
C15_Witness ==
    /\ tree.pc = "done"
    /\ [i \in 1 .. Len(tree.rows) |-> tree.rows[i].depth] = <<0, 1, 2, 1, 0>>
    /\ tree.st.lines = <<"t1 (1)", "|-- t2 (2)", "|   +-- t3 (3)",
                         "+-- t4 (4)", "t5 (5)">>

\* C16: in a pre-order listing the prefix of a row at depth d > 1 has d-1
\* cells of four characters, the cell of level k being the bar exactly
\* when the ancestor at depth k has a later sibling, four spaces
\* otherwise; when the row is processed k is in active_depths exactly
\* when that ancestor has a sibling further down.
C16_PrefixCells ==
    Valid(tree.rows) =>
      \A i \in 1 .. tree.i :
        LET rows == tree.rows
            d == rows[i].depth
            drew == tree.st.drawn[i]
        IN  d > 1 =>
              /\ Len(drew.prefix) = d - 1
              /\ \A k \in 1 .. (d - 1) :
                    LET open == LaterSibling(rows, Ancestor(rows, i, k))
                    IN  /\ Len(drew.prefix[k]) = 4
                        /\ drew.prefix[k] = IF open THEN Bar ELSE Blank
                        /\ (k \in drew.active_depths) <=> open

\* a row at depth 3 was drawn under an open branch at depth 1 and a
\* closed branch at depth 2
C16_Witness ==
    /\ tree.pc = "done"
    /\ [i \in 1 .. Len(tree.rows) |-> tree.rows[i].depth] = <<0, 1, 2, 3, 1>>
    /\ tree.st.drawn[4].prefix = <<Bar, Blank>>
    /\ tree.st.lines[4] = "|       +-- t4 (4)"

\* C17: no rows give the empty string; a pre-order listing made of two
\* forests renders as the first forest, one newline, the second forest;
\* active_depths is empty whenever a row at depth 0 is reached, and the
\* output has one line for each row and none besides.
C17_ForestIndependence ==
    LET rows == tree.rows
        n == Len(rows)
    IN  /\ (tree.pc = "done" /\ rows = << >>) => tree.result = ""
        /\ (tree.pc = "done" /\ rows # << >> /\ Valid(rows)) =>
              /\ Len(tree.st.lines) = n
              /\ tree.result = Join(tree.st.lines)
              /\ \A k \in 1 .. (n - 1) :
                    rows[k + 1].depth = 0 =>
                        tree.result =
                            print_tree(SubSeq(rows, 1, k)) \o "\n"
                                \o print_tree(SubSeq(rows, k + 1, n))
        /\ Valid(rows) =>
              \A i \in 1 .. tree.i :
                  rows[i].depth = 0 => tree.st.drawn[i].active_depths = {}

\* a forest of two roots, each with two children, was rendered
C17_Witness ==
    /\ tree.pc = "done"
    /\ [i \in 1 .. Len(tree.rows) |-> tree.rows[i].depth] = <<0, 1, 1, 0, 1>>
    /\ tree.result = "t1 (1)\n|-- t2 (2)\n+-- t3 (3)\nt4 (4)\n+-- t5 (5)"

\* a listing that is visibly not pre-order: its first row is below depth
\* 0, or a row is more than one level below the row before it
Malformed(rows) ==
    /\ rows # << >>
    /\ \/ rows[1].depth > 0
       \/ \E i \in 2 .. Len(rows) : rows[i].depth > rows[i - 1].depth + 1

\* C18: on a listing that is visibly not pre-order print_tree fails with
\* MalformedInput and returns no rendered string.
C18_MalformedInput ==
    (tree.pc = "done" /\ Malformed(tree.rows)) =>
        tree.error = "MalformedInput" /\ tree.result = ""

\* ------------------------------------------------- IncrementalSyncEngine, ctd.
\* C21: a request with update_last_sync set writes the checkpoint at most
\* once, on the first-sync path and on the incremental path; when it
\* returns records the checkpoint after the call is the id of the first
\* (newest) of them, and when it returns none the checkpoint is as the
\* call found it (none created, the existing row kept).
C21_OneCheckpointWrite ==
    \A p \in Procs :
        (proc[p].op = "analyze_commits" /\ proc[p].update_last_sync) =>
            /\ proc[p].writes <= 1
            /\ (proc[p].pc = "done" /\ proc[p].status = 200) =>
                 IF proc[p].commits # << >>
                   THEN /\ proc[p].writes = 1
                        /\ SelectRepo(table, proc[p].repo_id) # << >>
                        /\ \A i \in DOMAIN table :
                              table[i].repo_name = proc[p].repo_id =>
                                 table[i].last_commit_hash
                                     = proc[p].commits[1].commit_id
                   ELSE /\ proc[p].writes = 0
                        /\ SelectRepo(table, proc[p].repo_id)
                              = proc[p].sync_state

\* an incremental sync with the flag returned two records and the
\* checkpoint moved to the first of them
C21_Witness ==
    \E p \in Procs :
        /\ Incremental(p) /\ proc[p].update_last_sync
        /\ proc[p].pc = "done" /\ proc[p].status = 200
        /\ Len(proc[p].commits) = 2
        /\ proc[p].writes = 1
        /\ get_repo_sync_state(table, proc[p].repo_id)[1].last_commit_hash
             = proc[p].commits[1].commit_id
        /\ proc[p].commits[1].commit_id # proc[p].commits[2].commit_id

\* a request of p's call failed
FailedRequest(p) ==
    \E i \in DOMAIN proc[p].requests : proc[p].requests[i].rows = -1

\* C22: a request that fails, at the lookup of the checkpoint commit or at
\* any list request, leaves the checkpoint store as it found it, with or
\* without update_last_sync: it answers 500 having written nothing, and
\* update_repo_sync_state is entered only after a fetch without a failure.
C22_FailureWritesNothing ==
    \A p \in Procs :
        proc[p].op = "analyze_commits" =>
            /\ (FailedRequest(p) \/ proc[p].error # "none") =>
                 /\ proc[p].pc = "done"
                 /\ proc[p].status = 500
                 /\ proc[p].writes = 0
                 /\ SelectRepo(table, proc[p].repo_id) = proc[p].sync_state
            /\ proc[p].pc \in {"upd_read", "upd_write"} =>
                 /\ ~FailedRequest(p)
                 /\ proc[p].error = "none"

\* a flagged incremental sync held a record when its second list request
\* failed; it answered 500 and the checkpoint is the one it read
C22_Witness ==
    \E p \in Procs :
        /\ Incremental(p) /\ proc[p].update_last_sync
        /\ proc[p].pc = "done" /\ proc[p].status = 500
        /\ Len(ListRequests(p)) = 2
        /\ ListRequests(p)[2].rows = -1
        /\ proc[p].all_commits # << >>
        /\ SelectRepo(table, proc[p].repo_id) = proc[p].sync_state

\* the ids of a list of returned records
IdsOf(commits) == {commits[i].commit_id : i \in DOMAIN commits}

\* C23: over flagged syncs of one repository no record is skipped: when a
\* sync moves the checkpoint from one commit to a later one, every commit
\* pushed between the two is among the records that sync returns, also
\* when more than max_commits new commits exist.  (Only a flagged sync
\* that returns records moves the checkpoint, and it moves it to the
\* newest record it returns, so a record between the two checkpoints was
\* returned by this sync or by none.)
C23_NoRecordSkipped ==
    [][\A p \in Procs :
          ( /\ Incremental(p)
            /\ proc[p].pc = "upd_write"
            /\ proc'[p].pc = "done" ) =>
              \A sha \in 1 .. Len(history[proc[p].repo_id]) :
                  ( /\ sha > proc[p].since_commit_id
                    /\ sha < proc[p].last_commit_hash ) =>
                        sha \in IdsOf(proc[p].commits)]_vars

\* no other commit of the repository carries the timestamp of the
\* checkpoint commit of p's call
CheckpointDateUnshared(p) ==
    \A i \in DOMAIN history[proc[p].repo_id] :
        LET c == history[proc[p].repo_id][i]
        IN  c.sha # proc[p].since_commit_id => c.date # proc[p].since_date

\* C24: the sequence one call of get_commits_since returns holds each
\* commit id at most once, also when commits are pushed between two of
\* its page requests (the ids of the source are unique, and here no commit
\* shares the timestamp of the checkpoint commit).
C24_NoDuplicateIds ==
    \A p \in Procs :
        (Fetched(p) /\ CheckpointDateUnshared(p)) =>
            \A i, j \in DOMAIN proc[p].commits :
                i # j => proc[p].commits[i].commit_id
                            # proc[p].commits[j].commit_id

=============================================================================
